---- MODULE Spec2Model ----
(***************************************************************************)
(* Mode registry and tool-permission resolution of src/shared/modes.ts.    *)
(*                                                                         *)
(* The functions of modes.ts are pure; two of them are asynchronous        *)
(* (getAllModesWithPrompts, getFullModeDetails) and settle a promise.  The *)
(* state machine holds the built-in mode table, the caller's custom-mode   *)
(* sequence, the call in progress (operation and arguments), its outcome   *)
(* and the calls it made to the instruction-aggregation collaborator.      *)
(* Each action is one call of one exported function, run to its end, with  *)
(* arguments drawn from bounded sets; ReturnToCaller brings the caller     *)
(* back to idle.                                                           *)
(*                                                                         *)
(* Strings that the code inspects character by character (file paths and   *)
(* regular-expression sources) are sequences of one-character strings.     *)
(***************************************************************************)
EXTENDS Integers, Sequences, FiniteSets, TLC

VARIABLES modes, customModes, call, outcome, addCustomInstructionsCalls

vars == <<modes, customModes, call, outcome, addCustomInstructionsCalls>>

----------------------------------------------------------------------------
(* Bounds *)

\* Longest custom-mode sequence a caller supplies.
MaxCustomModes == 2

----------------------------------------------------------------------------
(* JavaScript values *)

Undefined == [kind |-> "undefined"]

Object(entries) == [kind |-> "object", entries |-> entries]

\* The literal boolean false passed where a mapping is expected.
FalseLiteral == [kind |-> "false"]

Str(s) == [kind |-> "string", value |-> s]

\* A call returns a boolean.
Return(v) == [kind |-> "return", value |-> v]

\* A call returns an array of modes.
ReturnList(list) == [kind |-> "return", list |-> list]

\* A call returns a mode, or undefined.
ReturnMode(mode) == [kind |-> "return", mode |-> mode]

\* An array passed where the parameter is optional.
Array(items) == [kind |-> "array", items |-> items]

\* customModes?.find, customModes?.some, customModes?.length: an absent
\* array has no entries to offer.
ItemsOf(optionalArray) ==
    IF optionalArray.kind = "array" THEN optionalArray.items ELSE <<>>

\* A call returns a list of tool names.
ReturnTools(tools) == [kind |-> "return", tools |-> tools]

\* An asynchronous call settles: its promise is fulfilled with a mode or
\* rejected with the error that ended it.
Fulfilled(mode) == [kind |-> "fulfilled", mode |-> mode]

Rejected(reason) == [kind |-> "rejected", reason |-> reason]

\* object.key of a record whose fields are strings: the string, or
\* undefined where the record has no such field.
Property(record, key) ==
    IF key \in DOMAIN record THEN Str(record[key]) ELSE Undefined

\* object?.key of an optional mapping.
OptionalProperty(object, key) ==
    IF object.kind = "object" /\ key \in DOMAIN object.entries
    THEN Str(object.entries[key])
    ELSE Undefined

\* Truthiness of a string or undefined: the empty string is falsy.
Truthy(v) == v.kind = "string" /\ v.value # ""

\* a || b
Or(a, b) == IF Truthy(a) THEN a ELSE b

\* An asynchronous call is fulfilled with a list of modes.
FulfilledList(list) == [kind |-> "fulfilled", list |-> list]

NoOutcome == [kind |-> "none"]

\* obj?.key : undefined when obj is absent or has no such key.
HasKey(obj, key) == obj.kind = "object" /\ key \in DOMAIN obj.entries

----------------------------------------------------------------------------
(* Tool Group Catalog (shared/tools.ts, shared/experiments.ts) *)

TOOL_GROUPS ==
    [ read    |-> <<"read_file", "fetch_instructions", "search_files",
                    "list_files", "list_code_definition_names">>,
      edit    |-> <<"apply_diff", "write_to_file", "insert_content",
                    "search_and_replace">>,
      browser |-> <<"browser_action">>,
      command |-> <<"execute_command">>,
      mcp     |-> <<"use_mcp_tool", "access_mcp_resource">>,
      review  |-> <<"reviewer">> ]

ALWAYS_AVAILABLE_TOOLS ==
    <<"ask_followup_question", "attempt_completion", "switch_mode", "new_task">>

\* Object.values(EXPERIMENT_IDS)
EXPERIMENT_IDS == <<"search_and_replace", "insert_content", "powerSteering">>

\* Array.prototype.includes
Includes(seq, x) == \E i \in 1..Len(seq) : seq[i] = x

----------------------------------------------------------------------------
(* Group entries: a bare group id, or a pair (group id, options) *)

Simple(id) == [tag |-> "simple", id |-> id]

Scoped(id, options) == [tag |-> "scoped", id |-> id, options |-> options]

getGroupName(group) == group.id

getGroupOptions(group) ==
    IF group.tag = "scoped" THEN Object(group.options) ELSE Undefined

----------------------------------------------------------------------------
(* Regular expressions: the subset of the RegExp syntax the patterns use.  *)
(* A compiled pattern is a sequence of tokens; compilation fails on an     *)
(* unbalanced parenthesis or a trailing backslash.                         *)

Lit(c) == [t |-> "lit", c |-> c]
AnyChar == [t |-> "any", c |-> ""]
AnyStar == [t |-> "anystar", c |-> ""]
EndAnchor == [t |-> "end", c |-> ""]
StartAnchor == [t |-> "start", c |-> ""]
GroupOpen == [t |-> "open", c |-> ""]
GroupClose == [t |-> "close", c |-> ""]

RECURSIVE Tokens(_, _)
Tokens(src, i) ==
    IF i > Len(src) THEN <<>>
    ELSE IF src[i] = "\\" THEN
        IF i = Len(src) THEN <<[t |-> "error", c |-> ""]>>
        ELSE <<Lit(src[i + 1])>> \o Tokens(src, i + 2)
    ELSE IF src[i] = "." THEN
        IF i < Len(src) /\ src[i + 1] = "*"
        THEN <<AnyStar>> \o Tokens(src, i + 2)
        ELSE <<AnyChar>> \o Tokens(src, i + 1)
    ELSE IF src[i] = "$" THEN <<EndAnchor>> \o Tokens(src, i + 1)
    ELSE IF src[i] = "^" THEN <<StartAnchor>> \o Tokens(src, i + 1)
    ELSE IF src[i] = "(" THEN <<GroupOpen>> \o Tokens(src, i + 1)
    ELSE IF src[i] = ")" THEN <<GroupClose>> \o Tokens(src, i + 1)
    ELSE <<Lit(src[i])>> \o Tokens(src, i + 1)

RECURSIVE Balanced(_, _, _)
Balanced(toks, i, depth) ==
    IF i > Len(toks) THEN depth = 0
    ELSE IF toks[i].t = "error" THEN FALSE
    ELSE IF toks[i].t = "open" THEN Balanced(toks, i + 1, depth + 1)
    ELSE IF toks[i].t = "close" THEN depth > 0 /\ Balanced(toks, i + 1, depth - 1)
    ELSE Balanced(toks, i + 1, depth)

\* new RegExp(pattern): the compiled pattern, or a SyntaxError.
NewRegExp(pattern) ==
    LET toks == Tokens(pattern, 1)
    IN  IF Balanced(toks, 1, 0) THEN [ok |-> TRUE, toks |-> toks]
        ELSE [ok |-> FALSE, toks |-> <<>>]

RECURSIVE MatchAt(_, _, _, _)
MatchAt(toks, i, str, j) ==
    IF i > Len(toks) THEN TRUE
    ELSE IF toks[i].t = "lit" THEN
        j <= Len(str) /\ str[j] = toks[i].c /\ MatchAt(toks, i + 1, str, j + 1)
    ELSE IF toks[i].t = "any" THEN
        j <= Len(str) /\ MatchAt(toks, i + 1, str, j + 1)
    ELSE IF toks[i].t = "anystar" THEN
        \E k \in j..(Len(str) + 1) : MatchAt(toks, i + 1, str, k)
    ELSE IF toks[i].t = "end" THEN
        j = Len(str) + 1 /\ MatchAt(toks, i + 1, str, j)
    ELSE IF toks[i].t = "start" THEN
        j = 1 /\ MatchAt(toks, i + 1, str, j)
    ELSE MatchAt(toks, i + 1, str, j)

\* regex.test(str): an unanchored search.
RegexTest(regex, str) == \E s \in 1..(Len(str) + 1) : MatchAt(regex.toks, 1, str, s)

doesFileMatchRegex_failOpen(filePath, pattern) ==
    LET regex == NewRegExp(pattern)
    IN  IF regex.ok THEN RegexTest(regex, filePath) ELSE TRUE

doesFileMatchRegex_swapped(filePath, pattern) ==
    LET regex == NewRegExp(filePath)
    IN  IF regex.ok THEN RegexTest(regex, pattern) ELSE FALSE

doesFileMatchRegex(filePath, pattern) ==
    LET regex == NewRegExp(pattern)
    IN  IF regex.ok THEN RegexTest(regex, filePath) ELSE FALSE

----------------------------------------------------------------------------
(* Tools of a group list *)

\* Set.prototype.add on a Set kept in insertion order.
SetAdd_append(tools, tool) == Append(tools, tool)

SetAdd(tools, tool) ==
    IF Includes(tools, tool) THEN tools ELSE Append(tools, tool)

RECURSIVE AddTools(_, _)
AddTools(tools, list) ==
    IF list = <<>> THEN tools
    ELSE AddTools(SetAdd(tools, Head(list)), Tail(list))

RECURSIVE AddGroups(_, _)
AddGroups(tools, groups) ==
    IF groups = <<>> THEN tools
    ELSE AddGroups(AddTools(tools, TOOL_GROUPS[getGroupName(Head(groups))]),
                   Tail(groups))

getToolsForMode_groupsOnly(groups) == AddGroups(<<>>, groups)

getToolsForMode(groups) ==
    AddTools(AddGroups(<<>>, groups), ALWAYS_AVAILABLE_TOOLS)

----------------------------------------------------------------------------
(* Built-in mode table.  Role and instruction texts are static prose; they *)
(* are kept as short labels.  modes.ts is present in two revisions that    *)
(* differ only in the groups of the built-in modes.                        *)

MdPattern == <<"\\", ".", "m", "d", "$">>

ReviewResponsePattern ==
    <<"\\", ".", "a", "g", "e", "n", "t", "/", "r", "e", "v", "i", "e", "w", "_",
      "r", "e", "s", "p", "o", "n", "s", "e", "_", ".", "*", "\\", ".", "m", "d", "$">>

ModeConfig(slug, name, groups) ==
    [ slug |-> slug, name |-> name, roleDefinition |-> "role:" \o slug,
      groups |-> groups, customInstructions |-> "instructions:" \o slug ]

BuiltinModes ==
    << ModeConfig("code", "Code",
         <<Simple("read"), Simple("edit"), Simple("browser"), Simple("command"),
           Simple("mcp"), Simple("review")>>),
       ModeConfig("architect", "Architect",
         <<Simple("read"),
           Scoped("edit", [fileRegex |-> MdPattern, description |-> "Markdown files only"]),
           Simple("browser"), Simple("command"), Simple("mcp"), Simple("review")>>),
       ModeConfig("ask", "Ask", <<Simple("read"), Simple("browser"), Simple("mcp")>>),
       ModeConfig("debug", "Debug",
         <<Simple("read"), Simple("edit"), Simple("browser"), Simple("command"),
           Simple("mcp")>>),
       ModeConfig("reviewer", "Reviewer",
         <<Simple("read"),
           Scoped("edit", [fileRegex |-> ReviewResponsePattern,
                           description |-> "Review response files only"]),
           Simple("browser"), Simple("command"), Simple("mcp"), Simple("review")>>),
       ModeConfig("orchestrator", "Orchestrator", <<>>) >>

BuiltinModesRevised ==
    << ModeConfig("code", "Code",
         <<Simple("read"), Simple("edit"), Simple("browser"), Simple("command"),
           Simple("mcp")>>),
       ModeConfig("architect", "Architect",
         <<Simple("read"),
           Scoped("edit", [fileRegex |-> MdPattern, description |-> "Markdown files only"]),
           Simple("browser"), Simple("mcp")>>),
       ModeConfig("ask", "Ask", <<Simple("read"), Simple("browser"), Simple("mcp")>>),
       ModeConfig("debug", "Debug",
         <<Simple("read"), Simple("edit"), Simple("browser"), Simple("command"),
           Simple("mcp")>>),
       ModeConfig("reviewer", "Reviewer",
         <<Simple("read"),
           Scoped("edit", [fileRegex |-> ReviewResponsePattern,
                           description |-> "Review response files only"]),
           Simple("browser"), Simple("command"), Simple("mcp")>>),
       ModeConfig("orchestrator", "Orchestrator", <<>>) >>

----------------------------------------------------------------------------
(* Mode Registry *)

\* Array.prototype.findIndex on the slug; -1 when no entry has the slug.
FindIndexBySlug(seq, slug) ==
    IF \E i \in 1..Len(seq) : seq[i].slug = slug
    THEN CHOOSE i \in 1..Len(seq) :
            /\ seq[i].slug = slug
            /\ \A j \in 1..(i - 1) : seq[j].slug # slug
    ELSE -1

\* Array.prototype.find on the slug; undefined when no entry has the slug.
FindBySlug(seq, slug) ==
    LET i == FindIndexBySlug(seq, slug)
    IN  IF i = -1 THEN Undefined ELSE seq[i]

getModeBySlug_builtinFirst(builtin, slug, custom) ==
    LET builtinMode == FindBySlug(builtin, slug)
    IN  IF builtinMode # Undefined THEN builtinMode
        ELSE FindBySlug(custom, slug)

getModeBySlug_defaultFallback(builtin, slug, custom) ==
    LET customMode == FindBySlug(custom, slug)
        builtinMode == FindBySlug(builtin, slug)
    IN  IF customMode # Undefined THEN customMode
        ELSE IF builtinMode # Undefined THEN builtinMode
        ELSE builtin[1]

getModeBySlug(builtin, slug, custom) ==
    LET customMode == FindBySlug(custom, slug)
    IN  IF customMode # Undefined THEN customMode
        ELSE FindBySlug(builtin, slug)

NotFoundError(slug) ==
    [kind |-> "throw", name |-> "Error", message |-> "No mode found for slug: " \o slug]

getModeConfig_defaultMode(builtin, slug, custom) ==
    LET mode == getModeBySlug(builtin, slug, custom)
    IN  IF mode = Undefined THEN ReturnMode(builtin[1]) ELSE ReturnMode(mode)

getModeConfig(builtin, slug, custom) ==
    LET mode == getModeBySlug(builtin, slug, custom)
    IN  IF mode = Undefined THEN NotFoundError(slug) ELSE ReturnMode(mode)

RECURSIVE MergeCustomModes_pushAlways(_, _, _)
MergeCustomModes_pushAlways(allModes, custom, k) ==
    IF k > Len(custom) THEN allModes
    ELSE MergeCustomModes_pushAlways(Append(allModes, custom[k]), custom, k + 1)

RECURSIVE MergeCustomModes_builtinIndexOnly(_, _, _)
MergeCustomModes_builtinIndexOnly(allModes, custom, k) ==
    IF k > Len(custom) THEN allModes
    ELSE LET index == FindIndexBySlug(SubSeq(allModes, 1, 6), custom[k].slug)
         IN  IF index # -1
             THEN MergeCustomModes_builtinIndexOnly(
                      [allModes EXCEPT ![index] = custom[k]], custom, k + 1)
             ELSE MergeCustomModes_builtinIndexOnly(Append(allModes, custom[k]), custom, k + 1)

RECURSIVE MergeCustomModes_prepend(_, _, _)
MergeCustomModes_prepend(allModes, custom, k) ==
    IF k > Len(custom) THEN allModes
    ELSE LET index == FindIndexBySlug(allModes, custom[k].slug)
         IN  IF index # -1
             THEN MergeCustomModes_prepend([allModes EXCEPT ![index] = custom[k]], custom, k + 1)
             ELSE MergeCustomModes_prepend(<<custom[k]>> \o allModes, custom, k + 1)

\* customModes.forEach from entry k on: an entry whose slug is already in
\* allModes replaces that entry in place, any other entry is pushed.
RECURSIVE MergeCustomModes(_, _, _)
MergeCustomModes(allModes, custom, k) ==
    IF k > Len(custom) THEN allModes
    ELSE LET index == FindIndexBySlug(allModes, custom[k].slug)
         IN  IF index # -1
             THEN MergeCustomModes([allModes EXCEPT ![index] = custom[k]], custom, k + 1)
             ELSE MergeCustomModes(Append(allModes, custom[k]), custom, k + 1)

getAllModes(builtin, custom) ==
    IF Len(custom) = 0 THEN builtin
    ELSE MergeCustomModes(builtin, custom, 1)

BuiltinAfterGetAllModes_alias(builtin, custom) == getAllModes(builtin, custom)

\* The built-in table once getAllModes has run: the function writes into
\* [...modes], a copy, so the table is as it was.
BuiltinAfterGetAllModes(builtin, custom) == builtin

isCustomMode_novelOnly(slug, custom) ==
    /\ FindIndexBySlug(custom, slug) # -1
    /\ FindIndexBySlug(BuiltinModes, slug) = -1

isCustomMode(slug, custom) == FindIndexBySlug(custom, slug) # -1

----------------------------------------------------------------------------
(* Effective mode: getFullModeDetails *)

\* What the instruction-aggregation collaborator does when it is called: it
\* returns the final instructions string, or it fails.
CollaboratorFailure == [kind |-> "error", message |-> "addCustomInstructions failed"]

addCustomInstructions == {Str("instructions:assembled"), Str(""), CollaboratorFailure}

BaseMode_lastBuiltin(builtin, modeSlug, custom) ==
    LET found == getModeBySlug(builtin, modeSlug, custom)
    IN  IF found # Undefined THEN found ELSE builtin[Len(builtin)]

BaseMode(builtin, modeSlug, custom) ==
    LET found == getModeBySlug(builtin, modeSlug, custom)
        again == FindBySlug(builtin, modeSlug)
    IN  IF found # Undefined THEN found
        ELSE IF again # Undefined THEN again
        ELSE builtin[1]

\* customModePrompts?.[modeSlug]
PromptComponentOf(customModePrompts, modeSlug) ==
    IF HasKey(customModePrompts, modeSlug)
    THEN customModePrompts.entries[modeSlug]
    ELSE Undefined

BaseCustomInstructions(baseMode, promptComponent) ==
    Or(Or(OptionalProperty(promptComponent, "customInstructions"),
          Property(baseMode, "customInstructions")),
       Str(""))

\* { ...baseMode, roleDefinition, customInstructions }
WithOverrides(baseMode, roleDefinition, customInstructions) ==
    [ k \in DOMAIN baseMode \cup {"roleDefinition", "customInstructions"} |->
        IF k = "roleDefinition" THEN roleDefinition
        ELSE IF k = "customInstructions" THEN customInstructions
        ELSE baseMode[k] ]

\* result is what the collaborator does if it is called.  The value is the
\* settled promise together with the calls made to the collaborator, each
\* with the arguments it was passed and what it answered.
getFullModeDetails(builtin, modeSlug, custom, customModePrompts, options, result) ==
    LET baseMode == BaseMode(builtin, modeSlug, custom)
        promptComponent == PromptComponentOf(customModePrompts, modeSlug)
        baseCustomInstructions == BaseCustomInstructions(baseMode, promptComponent)
        roleDefinition ==
            Or(OptionalProperty(promptComponent, "roleDefinition"),
               Property(baseMode, "roleDefinition"))
        arguments ==
            [ modeCustomInstructions   |-> baseCustomInstructions.value,
              globalCustomInstructions |->
                  Or(OptionalProperty(options, "globalCustomInstructions"), Str("")).value,
              cwd      |-> OptionalProperty(options, "cwd").value,
              mode     |-> modeSlug,
              language |-> OptionalProperty(options, "language") ]
    IN  IF Truthy(OptionalProperty(options, "cwd"))
        THEN [ calls   |-> <<[arguments |-> arguments, result |-> result]>>,
               outcome |-> IF result.kind = "string"
                           THEN Fulfilled(WithOverrides(baseMode, roleDefinition.value,
                                                        result.value))
                           ELSE Rejected(result) ]
        ELSE [ calls   |-> <<>>,
               outcome |-> Fulfilled(WithOverrides(baseMode, roleDefinition.value,
                                                   baseCustomInstructions.value)) ]

----------------------------------------------------------------------------
(* Modes with prompt overrides: getAllModesWithPrompts *)

\* a ?? b
Nullish(a, b) == IF a = Undefined THEN b ELSE a

\* The callback of allModes.map.  A customInstructions that comes out
\* undefined is a field that reads as undefined: the record has no such
\* field.
WithPrompts(mode, customModePrompts) ==
    LET promptComponent == PromptComponentOf(customModePrompts, mode.slug)
        roleDefinition ==
            Nullish(OptionalProperty(promptComponent, "roleDefinition"),
                    Property(mode, "roleDefinition"))
        customInstructions ==
            Nullish(OptionalProperty(promptComponent, "customInstructions"),
                    Property(mode, "customInstructions"))
        keys == DOMAIN mode \cup {"roleDefinition"}
                  \cup (IF customInstructions = Undefined THEN {}
                        ELSE {"customInstructions"})
    IN  [ k \in keys |->
            IF k = "roleDefinition" THEN roleDefinition.value
            ELSE IF k = "customInstructions" THEN customInstructions.value
            ELSE mode[k] ]

\* stored is what context.globalState holds under "customModes" and
\* "customModePrompts"; either may be undefined.
getAllModesWithPrompts(builtin, storedCustomModes, storedCustomModePrompts) ==
    LET custom == ItemsOf(storedCustomModes)
        customModePrompts ==
            IF storedCustomModePrompts = Undefined THEN Object(<<>>)
            ELSE storedCustomModePrompts
        allModes == getAllModes(builtin, custom)
    IN  [i \in 1..Len(allModes) |-> WithPrompts(allModes[i], customModePrompts)]

----------------------------------------------------------------------------
(* Permission Resolver *)

\* A string kept as a sequence of characters, written out as one string.
RECURSIVE Text(_)
Text(chars) == IF chars = <<>> THEN "" ELSE Head(chars) \o Text(Tail(chars))

FileRestrictionError_anyDescription(mode, pattern, description, filePath) ==
    [ kind |-> "throw", name |-> "FileRestrictionError", mode |-> mode,
      pattern |-> pattern, description |-> description, filePath |-> filePath,
      message |-> "This mode (" \o mode \o ") can only edit files matching pattern: "
                    \o Text(pattern)
                    \o (IF description.kind = "string"
                        THEN " (" \o description.value \o ")" ELSE "")
                    \o ". Got: " \o Text(filePath) ]

\* The error keeps the constructor's arguments next to the message built
\* from them.
FileRestrictionError(mode, pattern, description, filePath) ==
    [ kind |-> "throw", name |-> "FileRestrictionError", mode |-> mode,
      pattern |-> pattern, description |-> description, filePath |-> filePath,
      message |-> "This mode (" \o mode \o ") can only edit files matching pattern: "
                    \o Text(pattern)
                    \o (IF Truthy(description)
                        THEN " (" \o description.value \o ")" ELSE "")
                    \o ". Got: " \o Text(filePath) ]

\* experiments && EXPERIMENT_IDS includes tool && !experiments[tool]
ExperimentDenies(tool, experiments) ==
    /\ experiments.kind = "object"
    /\ Includes(EXPERIMENT_IDS, tool)
    /\ ~(HasKey(experiments, tool) /\ experiments.entries[tool])

RequirementsDeny_objectOnly(tool, toolRequirements) ==
    /\ toolRequirements.kind = "object"
    /\ HasKey(toolRequirements, tool)
    /\ ~toolRequirements.entries[tool]

RequirementsDeny_missingEntry(tool, toolRequirements) ==
    IF toolRequirements.kind = "object"
    THEN ~(HasKey(toolRequirements, tool) /\ toolRequirements.entries[tool])
    ELSE toolRequirements.kind = "false"

\* The toolRequirements rule: a mapping denies the tool it holds a falsy
\* entry for; the literal false denies every tool.
RequirementsDeny(tool, toolRequirements) ==
    IF toolRequirements.kind = "object"
    THEN HasKey(toolRequirements, tool) /\ ~toolRequirements.entries[tool]
    ELSE toolRequirements.kind = "false"

CarriesContent_defined(toolParams) ==
    \/ HasKey(toolParams, "diff")
    \/ HasKey(toolParams, "content")
    \/ HasKey(toolParams, "operations")

\* toolParams.diff || toolParams.content || toolParams.operations
\* (an empty string is falsy, an array is truthy even when empty).
CarriesContent(toolParams) ==
    \/ HasKey(toolParams, "diff") /\ toolParams.entries.diff # ""
    \/ HasKey(toolParams, "content") /\ toolParams.entries.content # ""
    \/ HasKey(toolParams, "operations")

EditPathViolation_anyGroup(groupName, options, toolParams) ==
    /\ HasKey(options, "fileRegex")
    /\ options.entries.fileRegex # <<>>
    /\ HasKey(toolParams, "path")
    /\ toolParams.entries.path # <<>>
    /\ CarriesContent(toolParams)
    /\ ~doesFileMatchRegex(toolParams.entries.path, options.entries.fileRegex)

EditPathViolation_noContentTest(groupName, options, toolParams) ==
    /\ groupName = "edit"
    /\ HasKey(options, "fileRegex")
    /\ options.entries.fileRegex # <<>>
    /\ HasKey(toolParams, "path")
    /\ toolParams.entries.path # <<>>
    /\ ~doesFileMatchRegex(toolParams.entries.path, options.entries.fileRegex)

\* The edit group's file-pattern rule: the condition under which the call
\* is rejected with a FileRestrictionError.
EditPathViolation(groupName, options, toolParams) ==
    /\ groupName = "edit"
    /\ HasKey(options, "fileRegex")
    /\ options.entries.fileRegex # <<>>
    /\ HasKey(toolParams, "path")
    /\ toolParams.entries.path # <<>>
    /\ CarriesContent(toolParams)
    /\ ~doesFileMatchRegex(toolParams.entries.path, options.entries.fileRegex)

\* The outcome once a group entry holding the tool is found.
GroupDecision(mode, group, toolParams) ==
    LET groupName == getGroupName(group)
        options   == getGroupOptions(group)
    IN  IF options = Undefined THEN Return(TRUE)
        ELSE IF EditPathViolation(groupName, options, toolParams)
             THEN FileRestrictionError(
                      mode.name, options.entries.fileRegex,
                      IF HasKey(options, "description")
                      THEN Str(options.entries.description) ELSE Undefined,
                      toolParams.entries.path)
             ELSE Return(TRUE)

RECURSIVE CheckGroups_anyGrant(_, _, _, _)
CheckGroups_anyGrant(mode, i, tool, toolParams) ==
    IF i > Len(mode.groups) THEN Return(FALSE)
    ELSE IF ~Includes(TOOL_GROUPS[getGroupName(mode.groups[i])], tool)
         THEN CheckGroups_anyGrant(mode, i + 1, tool, toolParams)
    ELSE LET here  == GroupDecision(mode, mode.groups[i], toolParams)
             later == CheckGroups_anyGrant(mode, i + 1, tool, toolParams)
         IN  IF here.kind = "throw" /\ later = Return(TRUE) THEN later ELSE here

RECURSIVE CheckGroups_defaultAllow(_, _, _, _)
CheckGroups_defaultAllow(mode, i, tool, toolParams) ==
    IF i > Len(mode.groups) THEN Return(TRUE)
    ELSE IF ~Includes(TOOL_GROUPS[getGroupName(mode.groups[i])], tool)
         THEN CheckGroups_defaultAllow(mode, i + 1, tool, toolParams)
    ELSE GroupDecision(mode, mode.groups[i], toolParams)

\* The loop over mode.groups, from entry i on: the first entry whose group
\* holds the tool decides; no such entry denies.
RECURSIVE CheckGroups(_, _, _, _)
CheckGroups(mode, i, tool, toolParams) ==
    IF i > Len(mode.groups) THEN Return(FALSE)
    ELSE IF ~Includes(TOOL_GROUPS[getGroupName(mode.groups[i])], tool)
         THEN CheckGroups(mode, i + 1, tool, toolParams)
    ELSE GroupDecision(mode, mode.groups[i], toolParams)

isToolAllowedForMode_requirementsGrant(builtin, tool, modeSlug, custom, toolRequirements, toolParams, experiments) ==
    IF Includes(ALWAYS_AVAILABLE_TOOLS, tool) THEN Return(TRUE)
    ELSE IF ExperimentDenies(tool, experiments) THEN Return(FALSE)
    ELSE IF RequirementsDeny(tool, toolRequirements) THEN Return(FALSE)
    ELSE IF HasKey(toolRequirements, tool) THEN Return(TRUE)
    ELSE LET mode == getModeBySlug(builtin, modeSlug, custom)
         IN  IF mode = Undefined THEN Return(FALSE)
             ELSE CheckGroups(mode, 1, tool, toolParams)

isToolAllowedForMode_requirementsFirst(builtin, tool, modeSlug, custom, toolRequirements, toolParams, experiments) ==
    IF ExperimentDenies(tool, experiments) THEN Return(FALSE)
    ELSE IF RequirementsDeny(tool, toolRequirements) THEN Return(FALSE)
    ELSE IF Includes(ALWAYS_AVAILABLE_TOOLS, tool) THEN Return(TRUE)
    ELSE LET mode == getModeBySlug(builtin, modeSlug, custom)
         IN  IF mode = Undefined THEN Return(FALSE)
             ELSE CheckGroups(mode, 1, tool, toolParams)

isToolAllowedForMode(builtin, tool, modeSlug, custom, toolRequirements, toolParams, experiments) ==
    IF Includes(ALWAYS_AVAILABLE_TOOLS, tool) THEN Return(TRUE)
    ELSE IF ExperimentDenies(tool, experiments) THEN Return(FALSE)
    ELSE IF RequirementsDeny(tool, toolRequirements) THEN Return(FALSE)
    ELSE LET mode == getModeBySlug(builtin, modeSlug, custom)
         IN  IF mode = Undefined THEN Return(FALSE)
             ELSE CheckGroups(mode, 1, tool, toolParams)

----------------------------------------------------------------------------
(* Inputs *)

\* Custom modes a caller may supply: an override of a built-in whose edit
\* group carries options without a pattern; two definitions of one new slug
\* that declare the restricted and the unrestricted edit group in opposite
\* orders; a new slug with a pattern on a non-edit group and an edit
\* pattern that is not a valid regular expression.
CustomModePool ==
    { [ slug |-> "architect", name |-> "Planner", roleDefinition |-> "role:planner",
        groups |-> <<Simple("read"), Scoped("edit", [description |-> "Any file"])>> ],
      [ slug |-> "docs", name |-> "Docs First", roleDefinition |-> "role:docs-first",
        groups |-> <<Scoped("edit", [fileRegex |-> MdPattern, description |-> ""]),
                     Simple("edit")>>,
        customInstructions |-> "instructions:docs-first" ],
      [ slug |-> "docs", name |-> "Edit First", roleDefinition |-> "role:edit-first",
        groups |-> <<Simple("edit"),
                     Scoped("edit", [fileRegex |-> MdPattern])>> ],
      [ slug |-> "ops", name |-> "Ops", roleDefinition |-> "role:ops",
        groups |-> <<Scoped("command", [fileRegex |-> MdPattern]),
                     Scoped("edit", [fileRegex |-> <<"(">>])>>,
        customInstructions |-> "" ] }

RECURSIVE SeqsUpTo(_, _)
SeqsUpTo(S, n) ==
    IF n = 0 THEN {<<>>}
    ELSE LET shorter == SeqsUpTo(S, n - 1)
         IN  shorter \cup {Append(q, x) : q \in shorter, x \in S}

CustomModeSeqs == SeqsUpTo(CustomModePool, MaxCustomModes)

ToolInputs ==
    { "ask_followup_question", "read_file", "write_to_file", "insert_content",
      "execute_command", "browser_action", "reviewer" }

SlugInputs ==
    { "code", "architect", "ask", "debug", "reviewer", "orchestrator",
      "docs", "ops", "nonexistent" }

\* A tool other than t, for entries that are not about t.
OtherTool(t) == IF t = "read_file" THEN "write_to_file" ELSE "read_file"

\* Mappings tool -> boolean offered as toolRequirements or experiments.
FlagObjects(t) ==
    { Object([x \in {t} |-> TRUE]), Object([x \in {t} |-> FALSE]),
      Object([x \in {OtherTool(t)} |-> FALSE]) }

ToolRequirementsInputs(t) == {Undefined, FalseLiteral} \cup FlagObjects(t)

ExperimentsInputs(t) == {Undefined} \cup FlagObjects(t)

PathMd == <<"n", ".", "m", "d">>
PathTs == <<"a", "p", "p", ".", "t", "s">>
PathReview ==
    <<".", "a", "g", "e", "n", "t", "/", "r", "e", "v", "i", "e", "w", "_",
      "r", "e", "s", "p", "o", "n", "s", "e", "_", "1", ".", "m", "d">>

ToolParamsInputs ==
    { Undefined,
      Object([path |-> PathTs]),
      Object([content |-> "x"]),
      Object([path |-> <<>>, content |-> "x"]),
      Object([path |-> PathMd, content |-> "x"]),
      Object([path |-> PathTs, content |-> "x"]),
      Object([path |-> PathTs, diff |-> "x"]),
      Object([path |-> PathTs, operations |-> <<>>]),
      Object([path |-> PathTs, content |-> "", diff |-> ""]),
      Object([path |-> PathReview, content |-> "x"]) }

\* Prompt components stored for a mode: overrides of the role definition,
\* of the custom instructions, of both, and overrides by the empty string.
PromptComponentInputs ==
    { Object([roleDefinition |-> "role:override"]),
      Object([customInstructions |-> "instructions:override"]),
      Object([roleDefinition |-> "role:override",
              customInstructions |-> "instructions:override"]),
      Object([roleDefinition |-> "", customInstructions |-> ""]) }

\* customModePrompts: absent, holding a component for another mode only, or
\* holding a component for the mode asked for.
CustomModePromptsInputs(slug) ==
    {Undefined, Object([s \in {"other"} |-> Object([roleDefinition |-> "role:override"])])}
      \cup {Object([s \in {slug} |-> component]) : component \in PromptComponentInputs}

OptionsInputs ==
    { Undefined,
      Object([language |-> "fr"]),
      Object([cwd |-> "", globalCustomInstructions |-> "global"]),
      Object([cwd |-> "/workspace"]),
      Object([cwd |-> "/workspace", globalCustomInstructions |-> "global",
              language |-> "fr"]) }

\* Group lists handed to getToolsForMode: those of the modes in reach.
GroupListInputs ==
    {modes[i].groups : i \in 1..Len(modes)}
      \cup {customModes[i].groups : i \in 1..Len(customModes)}

----------------------------------------------------------------------------
(* State machine *)

Idle == [op |-> "idle"]

Init ==
    /\ modes \in {BuiltinModes, BuiltinModesRevised}
    /\ customModes \in CustomModeSeqs
    /\ call = Idle
    /\ outcome = NoOutcome
    /\ addCustomInstructionsCalls = <<>>

IsToolAllowedForModeCall ==
    /\ call = Idle
    /\ \E tool \in ToolInputs, modeSlug \in SlugInputs, toolParams \in ToolParamsInputs :
         \E toolRequirements \in ToolRequirementsInputs(tool),
            experiments \in ExperimentsInputs(tool) :
           /\ call' = [ op |-> "isToolAllowedForMode", tool |-> tool,
                        modeSlug |-> modeSlug, toolRequirements |-> toolRequirements,
                        toolParams |-> toolParams, experiments |-> experiments ]
           /\ outcome' = isToolAllowedForMode(modes, tool, modeSlug, customModes,
                                              toolRequirements, toolParams, experiments)
    /\ UNCHANGED <<modes, customModes, addCustomInstructionsCalls>>

GetAllModesCall ==
    /\ call = Idle
    /\ call' = [op |-> "getAllModes"]
    /\ outcome' = ReturnList(getAllModes(modes, customModes))
    /\ modes' = BuiltinAfterGetAllModes(modes, customModes)
    /\ UNCHANGED <<customModes, addCustomInstructionsCalls>>

\* customModes is an optional parameter of the registry functions.
CustomModesArguments == {Undefined, Array(customModes)}

GetModeBySlugCall ==
    /\ call = Idle
    /\ \E slug \in SlugInputs, custom \in CustomModesArguments :
         /\ call' = [op |-> "getModeBySlug", slug |-> slug, customModes |-> custom]
         /\ outcome' = ReturnMode(getModeBySlug(modes, slug, ItemsOf(custom)))
    /\ UNCHANGED <<modes, customModes, addCustomInstructionsCalls>>

GetModeConfigCall ==
    /\ call = Idle
    /\ \E slug \in SlugInputs, custom \in CustomModesArguments :
         /\ call' = [op |-> "getModeConfig", slug |-> slug, customModes |-> custom]
         /\ outcome' = getModeConfig(modes, slug, ItemsOf(custom))
    /\ UNCHANGED <<modes, customModes, addCustomInstructionsCalls>>

IsCustomModeCall ==
    /\ call = Idle
    /\ \E slug \in SlugInputs, custom \in CustomModesArguments :
         /\ call' = [op |-> "isCustomMode", slug |-> slug, customModes |-> custom]
         /\ outcome' = Return(isCustomMode(slug, ItemsOf(custom)))
    /\ UNCHANGED <<modes, customModes, addCustomInstructionsCalls>>

GetToolsForModeCall ==
    /\ call = Idle
    /\ \E groups \in GroupListInputs :
         /\ call' = [op |-> "getToolsForMode", groups |-> groups]
         /\ outcome' = ReturnTools(getToolsForMode(groups))
    /\ UNCHANGED <<modes, customModes, addCustomInstructionsCalls>>

\* The call runs to its end, the collaborator's answer included: result is
\* what the collaborator does if the call reaches it.
GetFullModeDetailsCall ==
    /\ call = Idle
    /\ \E slug \in SlugInputs, custom \in CustomModesArguments,
          options \in OptionsInputs, result \in addCustomInstructions :
         \E customModePrompts \in CustomModePromptsInputs(slug) :
           LET settled == getFullModeDetails(modes, slug, ItemsOf(custom),
                                             customModePrompts, options, result)
           IN  /\ call' = [ op |-> "getFullModeDetails", slug |-> slug,
                            customModes |-> custom,
                            customModePrompts |-> customModePrompts,
                            options |-> options ]
               /\ outcome' = settled.outcome
               /\ addCustomInstructionsCalls' = settled.calls
    /\ UNCHANGED <<modes, customModes>>

\* The extension state holds the caller's custom modes or nothing, and a
\* prompt mapping for one slug or none.
GetAllModesWithPromptsCall ==
    /\ call = Idle
    /\ \E custom \in CustomModesArguments, slug \in SlugInputs :
         \E customModePrompts \in CustomModePromptsInputs(slug) :
           /\ call' = [ op |-> "getAllModesWithPrompts", customModes |-> custom,
                        customModePrompts |-> customModePrompts ]
           /\ outcome' = FulfilledList(getAllModesWithPrompts(modes, custom,
                                                              customModePrompts))
           /\ modes' = BuiltinAfterGetAllModes(modes, ItemsOf(custom))
    /\ UNCHANGED <<customModes, addCustomInstructionsCalls>>

\* Between two calls the caller's stored custom modes change: the next call
\* is handed another sequence.
CustomModesChange ==
    /\ call = Idle
    /\ customModes' \in CustomModeSeqs \ {customModes}
    /\ UNCHANGED <<modes, call, outcome, addCustomInstructionsCalls>>

\* The call returns (or its error reaches the caller); the caller is idle again.
ReturnToCaller ==
    /\ call # Idle
    /\ call' = Idle
    /\ outcome' = NoOutcome
    /\ addCustomInstructionsCalls' = <<>>
    /\ UNCHANGED <<modes, customModes>>

Next ==
    \/ IsToolAllowedForModeCall
    \/ GetAllModesCall
    \/ GetModeBySlugCall
    \/ GetModeConfigCall
    \/ IsCustomModeCall
    \/ GetToolsForModeCall
    \/ GetFullModeDetailsCall
    \/ GetAllModesWithPromptsCall
    \/ CustomModesChange
    \/ ReturnToCaller

Spec == Init /\ [][Next]_vars

----------------------------------------------------------------------------
(* Vocabulary of the properties, stated on the inputs and not through the  *)
(* resolver's own operators.                                               *)

PermissionCall == call.op = "isToolAllowedForMode"

IsAlwaysAvailable(t) ==
    t \in {"ask_followup_question", "attempt_completion", "switch_mode", "new_task"}

IsExperimental(t) == t \in {"search_and_replace", "insert_content", "powerSteering"}

\* The flags mapping holds a truthy entry for t.
FlagOn(flags, t) ==
    flags.kind = "object" /\ t \in DOMAIN flags.entries /\ flags.entries[t]

\* The flags mapping holds a falsy entry for t.
FlagOff(flags, t) ==
    flags.kind = "object" /\ t \in DOMAIN flags.entries /\ ~flags.entries[t]

\* Neither the experiments rule nor the toolRequirements rule of the code
\* decides the call: the mode's groups do.
FlagsLetThrough ==
    /\ ~IsAlwaysAvailable(call.tool)
    /\ call.toolRequirements.kind # "false"
    /\ ~FlagOff(call.toolRequirements, call.tool)
    /\ \/ ~IsExperimental(call.tool)
       \/ call.experiments.kind = "undefined"
       \/ FlagOn(call.experiments, call.tool)

SlugKnown(slug) ==
    \/ \E i \in 1..Len(customModes) : customModes[i].slug = slug
    \/ \E i \in 1..Len(modes) : modes[i].slug = slug

\* The mode a known slug names: the first custom mode of that slug, or
\* else the built-in mode of that slug.
ResolvedMode(slug) ==
    IF \E i \in 1..Len(customModes) : customModes[i].slug = slug
    THEN customModes[CHOOSE i \in 1..Len(customModes) :
                        /\ customModes[i].slug = slug
                        /\ \A j \in 1..(i - 1) : customModes[j].slug # slug]
    ELSE modes[CHOOSE i \in 1..Len(modes) : modes[i].slug = slug]

ToolsOfGroup(id) == {TOOL_GROUPS[id][k] : k \in 1..Len(TOOL_GROUPS[id])}

\* Positions of the group entries of mode m whose group holds tool t.
GrantingEntries(m, t) == {i \in 1..Len(m.groups) : t \in ToolsOfGroup(m.groups[i].id)}

Least(S) == CHOOSE x \in S : \A y \in S : x <= y

IsRestrictedEdit(entry) ==
    /\ entry.tag = "scoped"
    /\ entry.id = "edit"
    /\ "fileRegex" \in DOMAIN entry.options
    /\ entry.options.fileRegex # <<>>

\* The first entry of the resolved mode that holds the tool is the edit
\* group with a path pattern.
InRestrictedEditMode ==
    /\ SlugKnown(call.modeSlug)
    /\ GrantingEntries(ResolvedMode(call.modeSlug), call.tool) # {}
    /\ LET m == ResolvedMode(call.modeSlug)
       IN  IsRestrictedEdit(m.groups[Least(GrantingEntries(m, call.tool))])

FirstGrantPattern ==
    LET m == ResolvedMode(call.modeSlug)
    IN  m.groups[Least(GrantingEntries(m, call.tool))].options.fileRegex

ParamKeys == IF call.toolParams.kind = "object" THEN DOMAIN call.toolParams.entries ELSE {}

\* The call names a target path and carries something to write.
IsGenuineEdit ==
    /\ "path" \in ParamKeys
    /\ call.toolParams.entries.path # <<>>
    /\ \/ "diff" \in ParamKeys /\ call.toolParams.entries.diff # ""
       \/ "content" \in ParamKeys /\ call.toolParams.entries.content # ""
       \/ "operations" \in ParamKeys

EndsWith(str, suffix) ==
    /\ Len(str) >= Len(suffix)
    /\ SubSeq(str, Len(str) - Len(suffix) + 1, Len(str)) = suffix

Contains(str, part) ==
    \E k \in 1..(Len(str) - Len(part) + 1) : SubSeq(str, k, k + Len(part) - 1) = part

\* What each pattern of the model means, written out by hand.
PathSatisfies(path, pattern) ==
    IF pattern = MdPattern THEN EndsWith(path, <<".", "m", "d">>)
    ELSE IF pattern = ReviewResponsePattern
         THEN \E k \in 1..Len(path) :
                /\ Contains(SubSeq(path, 1, k),
                            <<".", "a", "g", "e", "n", "t", "/", "r", "e", "v", "i", "e",
                              "w", "_", "r", "e", "s", "p", "o", "n", "s", "e", "_">>)
                /\ EndsWith(SubSeq(path, k + 1, Len(path)), <<".", "m", "d">>)
    ELSE FALSE

RaisedFileRestriction == outcome.kind = "throw" /\ outcome.name = "FileRestrictionError"

----------------------------------------------------------------------------
(* Properties *)

\* C1: a call for an always-available tool returns true whatever the mode
\* slug, custom modes, toolRequirements (the literal false included), tool
\* parameters and experiments are; it never returns false and never raises.
C1_AlwaysAvailableAllowed ==
    (PermissionCall /\ IsAlwaysAvailable(call.tool)) => outcome = Return(TRUE)

C1_Witness ==
    /\ PermissionCall
    /\ call.tool = "ask_followup_question"
    /\ call.modeSlug = "nonexistent"
    /\ call.toolRequirements = FalseLiteral
    /\ outcome = Return(TRUE)

\* C2: a call for an experimental tool returns false unless experiments
\* holds a truthy entry for it, in particular when experiments is absent.
C2_ExperimentalOptIn ==
    (/\ PermissionCall
     /\ IsExperimental(call.tool)
     /\ ~IsAlwaysAvailable(call.tool)
     /\ ~FlagOn(call.experiments, call.tool))
        => outcome = Return(FALSE)

\* C3: with toolRequirements the literal false, a call for a tool that is
\* not always available returns false and does not raise, whatever the
\* mode, the tool parameters and the experiments are.
C3_FalseLiteralDeniesAll ==
    (/\ PermissionCall
     /\ call.toolRequirements.kind = "false"
     /\ ~IsAlwaysAvailable(call.tool))
        => outcome = Return(FALSE)

C3_Witness ==
    /\ PermissionCall
    /\ call.toolRequirements = FalseLiteral
    /\ call.tool = "write_to_file"
    /\ call.modeSlug = "architect"
    /\ customModes = <<>>
    /\ call.experiments = Undefined
    /\ call.toolParams = Object([path |-> PathTs, content |-> "x"])
    /\ outcome = Return(FALSE)

\* C4: with toolRequirements a mapping, a falsy entry for the requested
\* tool makes the call return false (tool not always available); with no
\* entry for the tool or a truthy one, the outcome is that of the same call
\* without toolRequirements.  Entries for other tools change nothing.
C4_RequirementsMapping ==
    (PermissionCall /\ call.toolRequirements.kind = "object") =>
        IF FlagOff(call.toolRequirements, call.tool)
        THEN ~IsAlwaysAvailable(call.tool) => outcome = Return(FALSE)
        ELSE outcome = isToolAllowedForMode(modes, call.tool, call.modeSlug, customModes,
                                            Undefined, call.toolParams, call.experiments)

C4_Witness ==
    /\ PermissionCall
    /\ call.tool = "write_to_file"
    /\ call.toolRequirements = Object([x \in {"read_file"} |-> FALSE])
    /\ call.modeSlug = "code"
    /\ customModes = <<>>
    /\ outcome = Return(TRUE)

\* C5: where the first group entry holding the tool is the edit group with
\* a path pattern, and no flag rule decides the call, a call that names a
\* non-empty path and carries a diff, content or operations returns true
\* when the path matches the pattern and raises FileRestrictionError when
\* it does not.
C5_RestrictedEditDecidedByPath ==
    (PermissionCall /\ FlagsLetThrough /\ InRestrictedEditMode /\ IsGenuineEdit) =>
        IF PathSatisfies(call.toolParams.entries.path, FirstGrantPattern)
        THEN outcome = Return(TRUE)
        ELSE RaisedFileRestriction

C5_Witness ==
    /\ PermissionCall
    /\ customModes = <<>>
    /\ call.modeSlug = "architect"
    /\ call.tool = "write_to_file"
    /\ call.toolRequirements = Undefined
    /\ call.experiments = Undefined
    /\ call.toolParams = Object([path |-> PathTs, content |-> "x"])
    /\ RaisedFileRestriction
    /\ outcome.filePath = PathTs

\* C6: in the same modes, a call whose tool parameters are absent, hold no
\* path, or hold a path but none of diff, content and operations returns
\* true and does not raise, whether or not the path matches.
C6_NonEditCallPasses ==
    (/\ PermissionCall
     /\ FlagsLetThrough
     /\ InRestrictedEditMode
     /\ \/ "path" \notin ParamKeys
        \/ ParamKeys \cap {"diff", "content", "operations"} = {})
        => outcome = Return(TRUE)

C6_Witness ==
    /\ PermissionCall
    /\ customModes = <<>>
    /\ call.modeSlug = "architect"
    /\ call.tool = "write_to_file"
    /\ call.toolRequirements = Undefined
    /\ call.toolParams = Object([path |-> PathTs])
    /\ outcome = Return(TRUE)

\* C7: when several group entries of the mode hold the tool, the first in
\* declaration order decides alone: restricted edit first and unrestricted
\* edit later, a genuine edit of a non-matching path raises; unrestricted
\* first, the call returns true.
C7_FirstEntryDecides ==
    (/\ PermissionCall
     /\ FlagsLetThrough
     /\ SlugKnown(call.modeSlug)
     /\ Cardinality(GrantingEntries(ResolvedMode(call.modeSlug), call.tool)) >= 2)
        => LET m     == ResolvedMode(call.modeSlug)
               first == m.groups[Least(GrantingEntries(m, call.tool))]
           IN  /\ first.tag = "simple" => outcome = Return(TRUE)
               /\ (/\ IsRestrictedEdit(first)
                   /\ IsGenuineEdit
                   /\ ~PathSatisfies(call.toolParams.entries.path, first.options.fileRegex))
                      => RaisedFileRestriction

C7_Witness ==
    /\ PermissionCall
    /\ Len(customModes) = 1
    /\ customModes[1].name = "Docs First"
    /\ call.modeSlug = "docs"
    /\ call.tool = "write_to_file"
    /\ call.toolParams = Object([path |-> PathTs, content |-> "x"])
    /\ RaisedFileRestriction

\* C8: when the mode slug names neither a custom nor a built-in mode, a
\* call for a tool that is not always available returns false and does not
\* raise, whatever the tool parameters are.
C8_UnknownModeDenied ==
    (/\ PermissionCall
     /\ ~SlugKnown(call.modeSlug)
     /\ ~IsAlwaysAvailable(call.tool))
        => outcome = Return(FALSE)

C8_Witness ==
    /\ PermissionCall
    /\ call.modeSlug = "nonexistent"
    /\ call.tool = "write_to_file"
    /\ call.toolRequirements = Undefined
    /\ call.experiments = Undefined
    /\ call.toolParams = Object([path |-> PathTs, content |-> "x"])
    /\ outcome = Return(FALSE)

\* C9: with the built-in modes only and no toolRequirements, tool
\* parameters or experiments, mode "ask" denies write_to_file and
\* execute_command and allows read_file.
C9_AskModeScenario ==
    (/\ PermissionCall
     /\ customModes = <<>>
     /\ call.modeSlug = "ask"
     /\ call.toolRequirements = Undefined
     /\ call.toolParams = Undefined
     /\ call.experiments = Undefined)
        => /\ call.tool \in {"write_to_file", "execute_command"} => outcome = Return(FALSE)
           /\ call.tool = "read_file" => outcome = Return(TRUE)

C9_Witness ==
    /\ PermissionCall
    /\ customModes = <<>>
    /\ call.modeSlug = "ask"
    /\ call.toolRequirements = Undefined
    /\ call.toolParams = Undefined
    /\ call.experiments = Undefined
    /\ call.tool = "execute_command"
    /\ outcome = Return(FALSE)

----------------------------------------------------------------------------
(* getAllModes *)

GetAllModesReturned == call.op = "getAllModes" /\ outcome.kind = "return"

BuiltinSlugs == {modes[i].slug : i \in 1..Len(modes)}

CustomSlugs == {customModes[k].slug : k \in 1..Len(customModes)}

\* Positions in customModes of the modes whose slug is no built-in slug.
NovelPositions == {k \in 1..Len(customModes) : customModes[k].slug \notin BuiltinSlugs}

NovelSlugs == {customModes[k].slug : k \in NovelPositions}

Greatest(S) == CHOOSE x \in S : \A y \in S : x >= y

FirstPosition(slug) == Least({k \in 1..Len(customModes) : customModes[k].slug = slug})

LastPosition(slug) == Greatest({k \in 1..Len(customModes) : customModes[k].slug = slug})

\* Rank of a new slug among the new slugs, by first occurrence.
NovelRank(slug) ==
    Cardinality({t \in NovelSlugs : FirstPosition(t) <= FirstPosition(slug)})

\* Built-in modes whose slug is not overridden stay at their index.
BuiltinsKeptInPlace(result) ==
    \A i \in 1..Len(modes) :
        modes[i].slug \notin CustomSlugs => (i <= Len(result) /\ result[i] = modes[i])

\* C10 as stated: built-in modes that are not overridden keep their index,
\* and every custom mode with a new slug stands after all built-in
\* positions, these custom modes in the order in which they were supplied
\* (a mode supplied twice may stand once).
C10_EveryNovelModePlacedInOrder ==
    GetAllModesReturned =>
        LET result == outcome.list
        IN  /\ BuiltinsKeptInPlace(result)
            /\ \E place \in [NovelPositions -> (Len(modes) + 1)..Len(result)] :
                 /\ \A k \in NovelPositions : result[place[k]] = customModes[k]
                 /\ \A k1, k2 \in NovelPositions : k1 < k2 => place[k1] <= place[k2]

\* C10 amended: built-in modes that are not overridden keep their index,
\* and after the built-in positions stands exactly one entry per new slug,
\* the last custom mode supplied with that slug, the entries ordered by the
\* first occurrence of their slug in customModes.
C10_NovelSlugsPlacedInOrder ==
    GetAllModesReturned =>
        LET result == outcome.list
        IN  /\ BuiltinsKeptInPlace(result)
            /\ Len(result) = Len(modes) + Cardinality(NovelSlugs)
            /\ \A slug \in NovelSlugs :
                 result[Len(modes) + NovelRank(slug)] = customModes[LastPosition(slug)]

C10_Witness ==
    /\ GetAllModesReturned
    /\ Len(customModes) = 2
    /\ customModes[1].slug = "ops"
    /\ customModes[2].slug = "docs"
    /\ Len(outcome.list) = Len(modes) + 2
    /\ outcome.list[Len(modes) + 1] = customModes[1]
    /\ outcome.list[Len(modes) + 2] = customModes[2]
    /\ outcome.list[2] = modes[2]

\* C11: when customModes holds only slugs of built-in modes, getAllModes
\* returns as many entries as there are built-in modes; at the index of an
\* overridden built-in stands the custom mode of that slug (the last one
\* supplied with it), at every other index the built-in mode itself.
C11_OverridesReplaceInPlace ==
    (GetAllModesReturned /\ CustomSlugs \subseteq BuiltinSlugs) =>
        /\ Len(outcome.list) = Len(modes)
        /\ \A i \in 1..Len(modes) :
             outcome.list[i] = IF modes[i].slug \in CustomSlugs
                               THEN customModes[LastPosition(modes[i].slug)]
                               ELSE modes[i]

C11_Witness ==
    /\ GetAllModesReturned
    /\ Len(customModes) = 1
    /\ customModes[1].slug = "architect"
    /\ Len(outcome.list) = 6
    /\ outcome.list[2].name = "Planner"
    /\ outcome.list[1] = modes[1]

\* C12: the sequence getAllModes returns holds pairwise distinct slugs, and
\* holds an entry for every built-in slug and for every slug of customModes,
\* also when customModes holds one slug more than once.
C12_ResolvedSlugsUnique ==
    GetAllModesReturned =>
        /\ \A i, j \in 1..Len(outcome.list) :
             outcome.list[i].slug = outcome.list[j].slug => i = j
        /\ {outcome.list[i].slug : i \in 1..Len(outcome.list)} = BuiltinSlugs \cup CustomSlugs

C12_Witness ==
    /\ GetAllModesReturned
    /\ Len(customModes) = 2
    /\ customModes[1].slug = "docs"
    /\ customModes[2].slug = "docs"
    /\ customModes[1] # customModes[2]
    /\ Len(outcome.list) = 7
    /\ outcome.list[7].slug = "docs"

\* Entries of a sequence.
Range(seq) == {seq[i] : i \in 1..Len(seq)}

\* C13: no call changes the built-in mode table or the custom-mode
\* sequence it was handed, and getAllModes builds its result anew on every
\* call: each entry it returns is a mode of the sequence handed to this
\* call or a built-in mode as first defined, never an override or an
\* addition left by an earlier call.
C13_CallsLeaveInputsAlone ==
    [][ /\ modes' = modes
        /\ call' # Idle => customModes' = customModes
        /\ GetAllModesReturned' =>
             Range(outcome'.list) \subseteq
                 Range(customModes') \cup Range(BuiltinModes) \cup Range(BuiltinModesRevised)
      ]_vars

C13_Witness ==
    /\ GetAllModesReturned
    /\ Len(customModes) = 2
    /\ customModes[1].slug = "architect"
    /\ customModes[2].slug = "ops"
    /\ outcome.list[2] = customModes[1]
    /\ outcome.list[7] = customModes[2]
    /\ Len(modes) = 6
    /\ modes[2].name = "Architect"

----------------------------------------------------------------------------
(* Registry lookups *)

\* The custom modes a registry call was handed; none when the argument
\* is absent.
HandedModes == IF call.customModes.kind = "array" THEN call.customModes.items ELSE <<>>

KnownIn(slug, custom) ==
    \/ \E i \in 1..Len(custom) : custom[i].slug = slug
    \/ \E i \in 1..Len(modes) : modes[i].slug = slug

\* The first custom mode of the slug, or else the built-in mode of the slug.
ResolvedIn(slug, custom) ==
    IF \E i \in 1..Len(custom) : custom[i].slug = slug
    THEN custom[Least({i \in 1..Len(custom) : custom[i].slug = slug})]
    ELSE modes[CHOOSE i \in 1..Len(modes) : modes[i].slug = slug]

\* C14: for a slug that names neither a custom nor a built-in mode,
\* getModeBySlug returns undefined and does not raise, and getModeConfig
\* raises the not-found error; for a slug that names a mode both return
\* that mode and neither raises.
C14_LenientAndStrictLookup ==
    /\ call.op = "getModeBySlug" =>
         outcome = ReturnMode(IF KnownIn(call.slug, HandedModes)
                              THEN ResolvedIn(call.slug, HandedModes) ELSE Undefined)
    /\ call.op = "getModeConfig" =>
         IF KnownIn(call.slug, HandedModes)
         THEN outcome = ReturnMode(ResolvedIn(call.slug, HandedModes))
         ELSE /\ outcome.kind = "throw"
              /\ outcome.name = "Error"
              /\ outcome.message = "No mode found for slug: " \o call.slug

C14_Witness ==
    /\ call.op = "getModeConfig"
    /\ call.slug = "nonexistent"
    /\ call.customModes.kind = "array"
    /\ Len(customModes) = 1
    /\ outcome.kind = "throw"
    /\ outcome.message = "No mode found for slug: nonexistent"

\* C15: a custom mode with the slug of a built-in mode shadows it:
\* getModeBySlug returns the custom mode, and isToolAllowedForMode decides
\* from the groups of the custom mode alone: a tool that none of them holds
\* is denied although the built-in grants it, and a path pattern of the
\* built-in does not apply where the custom mode sets none.
C15_CustomShadowsBuiltin ==
    /\ (call.op = "getModeBySlug" /\ \E i \in 1..Len(HandedModes) : HandedModes[i].slug = call.slug)
         => /\ outcome.kind = "return"
            /\ outcome.mode = HandedModes[Least({i \in 1..Len(HandedModes) :
                                                   HandedModes[i].slug = call.slug})]
    /\ (PermissionCall /\ FlagsLetThrough /\ call.modeSlug \in CustomSlugs \cap BuiltinSlugs)
         => LET m      == customModes[FirstPosition(call.modeSlug)]
                grants == GrantingEntries(m, call.tool)
            IN  /\ grants = {} => outcome = Return(FALSE)
                /\ (grants # {} /\ ~IsRestrictedEdit(m.groups[Least(grants)]))
                      => outcome = Return(TRUE)

C15_Witness ==
    /\ PermissionCall
    /\ Len(customModes) = 1
    /\ customModes[1].slug = "architect"
    /\ call.modeSlug = "architect"
    /\ call.tool = "write_to_file"
    /\ call.toolRequirements = Undefined
    /\ call.toolParams = Object([path |-> PathTs, content |-> "x"])
    /\ outcome = Return(TRUE)

\* C16: where the path pattern of the edit group is not a valid regular
\* expression, the call never ends in a pattern-compilation error: no path
\* matches, so a call that names a path and carries a diff, content or
\* operations raises FileRestrictionError for every path, and a call
\* without them returns true.
C16_InvalidPatternFailsClosed ==
    (/\ PermissionCall
     /\ FlagsLetThrough
     /\ InRestrictedEditMode
     /\ FirstGrantPattern = <<"(">>)
        => IF IsGenuineEdit THEN RaisedFileRestriction ELSE outcome = Return(TRUE)

C16_Witness ==
    /\ PermissionCall
    /\ Len(customModes) = 1
    /\ customModes[1].slug = "ops"
    /\ call.modeSlug = "ops"
    /\ call.tool = "write_to_file"
    /\ call.toolRequirements = Undefined
    /\ call.toolParams = Object([path |-> PathMd, content |-> "x"])
    /\ RaisedFileRestriction
    /\ outcome.pattern = <<"(">>

----------------------------------------------------------------------------
(* getFullModeDetails *)

FullModeDetailsCall == call.op = "getFullModeDetails"

\* The mode the call starts from: the one the slug names among the modes
\* handed to the call and the built-ins, or else the first built-in mode.
StartingMode ==
    IF KnownIn(call.slug, HandedModes) THEN ResolvedIn(call.slug, HandedModes)
    ELSE modes[1]

OverriddenFields == {"roleDefinition", "customInstructions"}

\* C17: getFullModeDetails starts from the mode getModeBySlug resolves for
\* the slug, and from the first built-in mode, "code", where the slug names
\* no mode: the mode it returns has the fields of that mode, it never
\* returns absence, and it never ends in the not-found error (it fails only
\* where the collaborator it called failed).
C17_FallsBackToFirstBuiltin ==
    FullModeDetailsCall =>
        /\ modes[1].slug = "code"
        /\ outcome.kind \in {"fulfilled", "rejected"}
        /\ outcome.kind = "rejected" =>
              /\ outcome.reason # NotFoundError(call.slug)
              /\ outcome.reason.kind = "error"
              /\ addCustomInstructionsCalls # <<>>
        /\ outcome.kind = "fulfilled" =>
              /\ outcome.mode # Undefined
              /\ DOMAIN outcome.mode = DOMAIN StartingMode \cup OverriddenFields
              /\ \A k \in DOMAIN StartingMode \ OverriddenFields :
                    outcome.mode[k] = StartingMode[k]

C17_Witness ==
    /\ FullModeDetailsCall
    /\ call.slug = "nonexistent"
    /\ call.customModes = Array(customModes)
    /\ Len(customModes) = 2
    /\ outcome.kind = "fulfilled"
    /\ outcome.mode.slug = "code"
    /\ outcome.mode.groups = modes[1].groups

NoWorkingDirectory ==
    ~(HasKey(call.options, "cwd") /\ call.options.entries.cwd # "")

OverrideDefined(field) ==
    /\ HasKey(call.customModePrompts, call.slug)
    /\ HasKey(call.customModePrompts.entries[call.slug], field)

OverrideValue(field) == call.customModePrompts.entries[call.slug].entries[field]

\* C18: without a working directory, the mode getFullModeDetails returns
\* carries, for roleDefinition and for customInstructions, the value that
\* promptOverrides[slug] defines, whatever that value is (the empty string
\* included); the mode's own value where no override value is defined; and
\* the empty string where the mode has none either.
C18_DefinedOverrideWins ==
    (FullModeDetailsCall /\ NoWorkingDirectory) =>
        /\ outcome.kind = "fulfilled"
        /\ \A field \in OverriddenFields :
              outcome.mode[field] =
                  IF OverrideDefined(field) THEN OverrideValue(field)
                  ELSE IF field \in DOMAIN StartingMode THEN StartingMode[field]
                  ELSE ""

----------------------------------------------------------------------------
(* isCustomMode, getToolsForMode *)

\* C19: isCustomMode returns true exactly when some entry of the customModes
\* it is handed has the slug, whether or not a built-in mode has it too;
\* handed no customModes or an empty sequence it returns false for every
\* slug, the built-in slugs included.
C19_CustomIffListed ==
    call.op = "isCustomMode" =>
        /\ outcome = Return(call.slug \in {HandedModes[i].slug : i \in 1..Len(HandedModes)})
        /\ (call.customModes = Undefined \/ HandedModes = <<>>) => outcome = Return(FALSE)

C19_Witness ==
    /\ call.op = "isCustomMode"
    /\ call.slug = "architect"
    /\ call.slug \in BuiltinSlugs
    /\ call.customModes = Array(customModes)
    /\ Len(customModes) = 2
    /\ customModes[2].slug = "architect"
    /\ outcome = Return(TRUE)

AlwaysAvailableTools ==
    {"ask_followup_question", "attempt_completion", "switch_mode", "new_task"}

\* C20: getToolsForMode returns the tools of every group its entries name,
\* bare or with options, and the always-available tools, no other tool, and
\* no tool twice; for an empty group list these are the always-available
\* tools.
C20_ToolsAreDeduplicatedUnion ==
    call.op = "getToolsForMode" =>
        LET tools == outcome.tools
        IN  /\ outcome.kind = "return"
            /\ Range(tools) =
                 UNION {ToolsOfGroup(call.groups[i].id) : i \in 1..Len(call.groups)}
                   \cup AlwaysAvailableTools
            /\ \A i, j \in 1..Len(tools) : tools[i] = tools[j] => i = j
            /\ call.groups = <<>> => Range(tools) = AlwaysAvailableTools

C20_Witness ==
    /\ call.op = "getToolsForMode"
    /\ Len(call.groups) = 2
    /\ call.groups[1].id = "edit"
    /\ call.groups[1].tag = "scoped"
    /\ call.groups[2] = Simple("edit")
    /\ Len(outcome.tools) = 8

----------------------------------------------------------------------------
(* Built-in mode catalog *)

\* C21: with no custom modes, a call in mode "debug" has the outcome of the
\* same call (same tool, toolRequirements, toolParams, experiments) in mode
\* "code".
C21_DebugGrantsAsCode ==
    (PermissionCall /\ customModes = <<>> /\ call.modeSlug = "debug") =>
        outcome = isToolAllowedForMode(modes, call.tool, "code", <<>>,
                                       call.toolRequirements, call.toolParams,
                                       call.experiments)

ArchitectGroups == {"read", "edit", "browser", "mcp"}

\* C22: with no custom modes, mode "architect" grants the read, edit,
\* browser and mcp groups and no other: a tool that is not always available
\* and belongs to none of these groups is denied, and a tool of the read,
\* browser or mcp group that the flags let through is allowed.
C22_ArchitectGrants ==
    (PermissionCall /\ customModes = <<>> /\ call.modeSlug = "architect"
       /\ ~IsAlwaysAvailable(call.tool)) =>
        /\ (\A g \in ArchitectGroups : call.tool \notin ToolsOfGroup(g))
              => outcome = Return(FALSE)
        /\ (FlagsLetThrough
              /\ \E g \in ArchitectGroups \ {"edit"} : call.tool \in ToolsOfGroup(g))
              => outcome = Return(TRUE)

----------------------------------------------------------------------------
(* Path-restriction error *)

\* The entry of the resolved mode that decides the call: the first one
\* whose group holds the tool.
FirstGrantEntry ==
    LET m == ResolvedMode(call.modeSlug)
    IN  m.groups[Least(GrantingEntries(m, call.tool))]

DescriptionPart ==
    LET options == FirstGrantEntry.options
    IN  IF "description" \in DOMAIN options /\ options.description # ""
        THEN " (" \o options.description \o ")"
        ELSE ""

\* C23: the path-restriction error carries the message
\* "This mode (<name>) can only edit files matching pattern: <pattern>[ (<description>)]. Got: <path>"
\* with the display name of the resolved mode (which is not its slug), the
\* pattern and the description of the deciding group entry and the path of
\* the call; the parenthesised part is there exactly when the description
\* is defined and not empty.
C23_RestrictionMessage ==
    (PermissionCall /\ RaisedFileRestriction) =>
        /\ ResolvedMode(call.modeSlug).name # call.modeSlug
        /\ outcome.message =
             "This mode (" \o ResolvedMode(call.modeSlug).name
               \o ") can only edit files matching pattern: "
               \o Text(FirstGrantPattern) \o DescriptionPart
               \o ". Got: " \o Text(call.toolParams.entries.path)

C23_Witness ==
    /\ PermissionCall
    /\ RaisedFileRestriction
    /\ call.modeSlug = "docs"
    /\ outcome.message =
         "This mode (Docs First) can only edit files matching pattern: \\.md$. Got: app.ts"

----------------------------------------------------------------------------
(* Options outside the edit-path rule *)

\* C24: where the first group entry holding the tool carries options but
\* is not the edit group with a path pattern (another group, or options
\* without a pattern), the call returns true whatever toolParams is and
\* does not raise: a pattern on a group other than edit is not enforced.
C24_OtherOptionsAllow ==
    (/\ PermissionCall
     /\ FlagsLetThrough
     /\ SlugKnown(call.modeSlug)
     /\ GrantingEntries(ResolvedMode(call.modeSlug), call.tool) # {}
     /\ FirstGrantEntry.tag = "scoped"
     /\ \/ FirstGrantEntry.id # "edit"
        \/ "fileRegex" \notin DOMAIN FirstGrantEntry.options)
        => outcome = Return(TRUE)

C24_Witness ==
    /\ PermissionCall
    /\ call.modeSlug = "ops"
    /\ call.tool = "execute_command"
    /\ Len(customModes) = 1
    /\ customModes[1].slug = "ops"
    /\ FirstGrantEntry = Scoped("command", [fileRegex |-> MdPattern])
    /\ call.toolRequirements = Undefined
    /\ call.toolParams = Object([path |-> PathTs, content |-> "x"])
    /\ outcome = Return(TRUE)

----------------------------------------------------------------------------
(* Instruction-aggregation collaborator *)

HasWorkingDirectory ==
    HasKey(call.options, "cwd") /\ call.options.entries.cwd # ""

\* The instructions after override resolution: the override value where
\* promptOverrides[slug] defines one, else the mode's own, else "".
ResolvedInstructions ==
    IF OverrideDefined("customInstructions") THEN OverrideValue("customInstructions")
    ELSE IF "customInstructions" \in DOMAIN StartingMode
         THEN StartingMode.customInstructions
    ELSE ""

GlobalInstructionsOption ==
    IF HasKey(call.options, "globalCustomInstructions")
    THEN call.options.entries.globalCustomInstructions
    ELSE ""

LanguageOption ==
    IF HasKey(call.options, "language") THEN Str(call.options.entries.language)
    ELSE Undefined

\* C25: getFullModeDetails calls the collaborator exactly when the options
\* hold a non-empty working directory, once, with the instructions after
\* override resolution, the global instructions or "", the working
\* directory, the slug asked for and the language; what the collaborator
\* returns is the customInstructions of the returned mode, and where it
\* fails the call fails and returns no mode.  Without a working directory
\* the customInstructions are the instructions after override resolution.
C25_CollaboratorProtocol ==
    FullModeDetailsCall =>
        IF HasWorkingDirectory
        THEN /\ Len(addCustomInstructionsCalls) = 1
             /\ LET sent == addCustomInstructionsCalls[1]
                IN  /\ sent.arguments.modeCustomInstructions = ResolvedInstructions
                    /\ sent.arguments.globalCustomInstructions = GlobalInstructionsOption
                    /\ sent.arguments.cwd = call.options.entries.cwd
                    /\ sent.arguments.mode = call.slug
                    /\ sent.arguments.language = LanguageOption
                    /\ IF sent.result.kind = "string"
                       THEN /\ outcome.kind = "fulfilled"
                            /\ outcome.mode.customInstructions = sent.result.value
                       ELSE outcome = [kind |-> "rejected", reason |-> sent.result]
        ELSE /\ addCustomInstructionsCalls = <<>>
             /\ outcome.kind = "fulfilled"
             /\ outcome.mode.customInstructions = ResolvedInstructions

----------------------------------------------------------------------------
(* Lookup against the merged list *)

\* C26: getModeBySlug(slug, customModes) returns the entry of
\* getAllModes(customModes) that has the slug, and returns undefined exactly
\* when getAllModes(customModes) has no entry with the slug, also where a
\* slug occurs more than once in customModes.
C26_LookupAgreesWithMergedList ==
    call.op = "getModeBySlug" =>
        LET allModes == getAllModes(modes, HandedModes)
            places   == {i \in 1..Len(allModes) : allModes[i].slug = call.slug}
        IN  IF places = {} THEN outcome = ReturnMode(Undefined)
            ELSE \A i \in places : outcome = ReturnMode(allModes[i])

----------------------------------------------------------------------------
(* Permission against the tool list *)

AllAbsent ==
    /\ call.toolRequirements = Undefined
    /\ call.toolParams = Undefined
    /\ call.experiments = Undefined

\* C27: for a slug that names a mode, with toolRequirements, toolParams and
\* experiments absent, isToolAllowedForMode returns true exactly when the
\* tool is in getToolsForMode of the resolved mode's groups, and does not
\* raise; a mode with no groups allows the always-available tools and no
\* other.
C27_AllowedIffListed ==
    (PermissionCall /\ AllAbsent /\ SlugKnown(call.modeSlug)) =>
        LET groups == ResolvedMode(call.modeSlug).groups
        IN  /\ outcome = Return(Includes(getToolsForMode(groups), call.tool))
            /\ groups = <<>> => outcome = Return(IsAlwaysAvailable(call.tool))

C27_Witness ==
    /\ PermissionCall
    /\ AllAbsent
    /\ customModes = <<>>
    /\ call.modeSlug = "orchestrator"
    /\ call.tool = "read_file"
    /\ outcome = Return(FALSE)

----------------------------------------------------------------------------
(* Conditions of the path-restriction error *)

\* C28: the path-restriction error is raised only where the tool is not
\* always available, neither the experiments nor the toolRequirements rule
\* denied it, the slug names a mode, the first group entry holding the tool
\* is the edit group with a non-empty pattern, toolParams.path is not
\* empty, one of diff, content, operations is truthy, and the path does not
\* match the pattern.  A call whose content and diff are empty strings and
\* that has no operations returns true even for a path that does not match.
C28_RaiseOnlyForGenuineEdit ==
    /\ (PermissionCall /\ RaisedFileRestriction) =>
          /\ FlagsLetThrough
          /\ InRestrictedEditMode
          /\ IsGenuineEdit
          /\ ~PathSatisfies(call.toolParams.entries.path, FirstGrantPattern)
    /\ (/\ PermissionCall
        /\ FlagsLetThrough
        /\ InRestrictedEditMode
        /\ ParamKeys = {"path", "content", "diff"}
        /\ call.toolParams.entries.content = ""
        /\ call.toolParams.entries.diff = "")
          => outcome = Return(TRUE)

C28_Witness ==
    /\ PermissionCall
    /\ customModes = <<>>
    /\ call.modeSlug = "architect"
    /\ call.tool = "write_to_file"
    /\ call.toolRequirements = Undefined
    /\ call.toolParams = Object([path |-> PathTs, content |-> "", diff |-> ""])
    /\ outcome = Return(TRUE)

----------------------------------------------------------------------------
(* toolRequirements and experiments only restrict *)

\* C29: a call that returns true with the toolRequirements and experiments
\* it was given also returns true with both absent and everything else the
\* same: supplying them never makes true a call that without them returns
\* false or raises the path-restriction error.
C29_FlagsOnlyRestrict ==
    (PermissionCall /\ outcome = Return(TRUE)) =>
        isToolAllowedForMode(modes, call.tool, call.modeSlug, customModes,
                             Undefined, call.toolParams, Undefined) = Return(TRUE)

C29_Witness ==
    /\ PermissionCall
    /\ call.tool = "insert_content"
    /\ call.modeSlug = "code"
    /\ FlagOn(call.toolRequirements, call.tool)
    /\ FlagOn(call.experiments, call.tool)
    /\ call.toolParams = Object([path |-> PathTs, content |-> "x"])
    /\ outcome = Return(TRUE)

----------------------------------------------------------------------------
(* The two override resolvers *)

\* C30: for every mode that getAllModesWithPrompts returns, its
\* roleDefinition and customInstructions are those that getFullModeDetails
\* returns for the mode's slug with the same custom modes and the same
\* prompt mapping and no working directory, also where an override is the
\* empty string and where the mode has no customInstructions of its own.
C30_ResolversAgree ==
    call.op = "getAllModesWithPrompts" =>
        \A i \in 1..Len(outcome.list) :
            LET listed  == outcome.list[i]
                details == getFullModeDetails(modes, listed.slug, HandedModes,
                                              call.customModePrompts, Undefined,
                                              CollaboratorFailure).outcome
            IN  /\ details.kind = "fulfilled"
                /\ details.mode.roleDefinition = listed.roleDefinition
                /\ Str(details.mode.customInstructions)
                     = Property(listed, "customInstructions")

====
